---- MODULE Spec2Model ----
(***************************************************************************)
(* State-machine model of the <my-element> to-do list component            *)
(* (src/src/my-element.ts): the task list, its JSON persistence in         *)
(* localStorage under the key "todo-list", the add / toggle / delete       *)
(* handlers, the debounced toggle and the sort done by render().           *)
(***************************************************************************)
EXTENDS Integers, Sequences, FiniteSets, TLC

(***************************************************************************)
(* Bounds of the model.                                                    *)
(***************************************************************************)
\* longest task list the add handler is exercised on
MaxTasks == 2
\* number of values crypto.randomUUID() is asked for over a whole behaviour
MaxUUID == 2
\* number of setTimeout handles a page hands out
MaxHandle == 2
\* number of add clicks recorded in the history of a list built by adds alone
MaxAdds == MaxTasks + 1

(***************************************************************************)
(* Text.  A string held by localStorage is a sequence of JSON tokens; a    *)
(* token is a string literal ("s") or a punctuation mark / bare literal    *)
(* ("p").  The empty string is the empty sequence.                         *)
(***************************************************************************)
Tok(k, v) == [k |-> k, v |-> v]
P(v) == Tok("p", v)
S(v) == Tok("s", v)

\* values the user can leave in the #todoInput text field
InputValues == {"", " ", "A", "B"}

\* ids found in data written by an earlier session or another program
StoredIds == {"s1", "s2"}

\* the n-th value handed out by crypto.randomUUID(): never one handed out before
randomUUID(n) == ToString(n)

(***************************************************************************)
(* JSON.stringify of a task list.  Members are written in the order        *)
(* title, completed, id (the insertion order of the objects the handlers   *)
(* build); a member the object lacks is not written.                       *)
(***************************************************************************)
StringifyMember(item, key) ==
    IF key \notin DOMAIN item THEN <<>>
    ELSE <<S(key), P(":"),
           IF key = "completed"
             THEN P(IF item[key] THEN "true" ELSE "false")
             ELSE S(item[key])>>

RECURSIVE JoinComma(_)
JoinComma(parts) ==
    IF parts = <<>> THEN <<>>
    ELSE IF Len(parts) = 1 THEN parts[1]
    ELSE parts[1] \o <<P(",")>> \o JoinComma(Tail(parts))

StringifyItem(item) ==
    <<P("{")>>
    \o JoinComma(SelectSeq(<<StringifyMember(item, "title"),
                             StringifyMember(item, "completed"),
                             StringifyMember(item, "id")>>,
                           LAMBDA m : m # <<>>))
    \o <<P("}")>>

JSONstringify(list) ==
    <<P("[")>>
    \o JoinComma([j \in 1..Len(list) |-> StringifyItem(list[j])])
    \o <<P("]")>>

(***************************************************************************)
(* JSON.parse: a recursive-descent parser over the tokens.  A result is    *)
(* [ok, kind, val, next]; ok = FALSE stands for the SyntaxError thrown.    *)
(***************************************************************************)
ParseFail == [ok |-> FALSE, kind |-> "none", val |-> <<>>, next |-> 0]
Parsed(kind, val, next) == [ok |-> TRUE, kind |-> kind, val |-> val, next |-> next]

RECURSIVE ParseValue(_, _), ParseElements(_, _, _), ParseMembers(_, _, _)
ParseValue(s, i) ==
    IF i > Len(s) THEN ParseFail
    ELSE IF s[i].k = "s" THEN Parsed("string", s[i].v, i + 1)
    ELSE IF s[i].v = "true" THEN Parsed("boolean", TRUE, i + 1)
    ELSE IF s[i].v = "false" THEN Parsed("boolean", FALSE, i + 1)
    ELSE IF s[i].v = "null" THEN Parsed("null", <<>>, i + 1)
    ELSE IF s[i].v = "["
      THEN IF i + 1 <= Len(s) /\ s[i + 1] = P("]")
             THEN Parsed("array", <<>>, i + 2)
             ELSE ParseElements(s, i + 1, <<>>)
    ELSE IF s[i].v = "{"
      THEN IF i + 1 <= Len(s) /\ s[i + 1] = P("}")
             THEN Parsed("object", <<>>, i + 2)
             ELSE ParseMembers(s, i + 1, <<>>)
    ELSE ParseFail

ParseElements(s, i, acc) ==
    LET v == ParseValue(s, i) IN
    IF ~v.ok \/ v.next > Len(s) THEN ParseFail
    ELSE LET elems == Append(acc, [kind |-> v.kind, val |-> v.val]) IN
         IF s[v.next] = P(",") THEN ParseElements(s, v.next + 1, elems)
         ELSE IF s[v.next] = P("]") THEN Parsed("array", elems, v.next + 1)
         ELSE ParseFail

ParseMembers(s, i, acc) ==
    IF i + 1 > Len(s) \/ s[i].k # "s" \/ s[i + 1] # P(":") THEN ParseFail
    ELSE LET v == ParseValue(s, i + 2) IN
         IF ~v.ok \/ v.next > Len(s) THEN ParseFail
         ELSE LET obj == (s[i].v :> v.val) @@ acc IN
              IF s[v.next] = P(",") THEN ParseMembers(s, v.next + 1, obj)
              ELSE IF s[v.next] = P("}") THEN Parsed("object", obj, v.next + 1)
              ELSE ParseFail

JSONparse(s) ==
    LET r == ParseValue(s, 1) IN
    IF r.ok /\ r.next = Len(s) + 1 THEN r ELSE ParseFail

(***************************************************************************)
(* The _list initializer (load).  getItem gives null for an absent key;    *)
(* null and "" are falsy, so `|| "[]"` replaces both by the text `[]`.     *)
(* JSON.parse throws a SyntaxError on text that is no JSON; `.map` on a    *)
(* parsed value that is no array throws a TypeError.  Every element of a   *)
(* parsed array is copied with its id member set to a new randomUUID().    *)
(***************************************************************************)
EmptyArrayText == <<P("["), P("]")>>

getItem(storage) ==
    IF storage.present /\ storage.text # <<>> THEN storage.text ELSE EmptyArrayText

\* { ...item, id: uuid }
SpreadWithId(item, uuid) ==
    [key \in DOMAIN item \cup {"id"} |-> IF key = "id" THEN uuid ELSE item[key]]

\* n is the index of the next value of randomUUID()
Load(storage, n) ==
    LET r == JSONparse(getItem(storage)) IN
    IF ~r.ok
      THEN [error |-> "SyntaxError", list |-> <<>>, next |-> n]
    ELSE IF r.kind # "array"
      THEN [error |-> "TypeError", list |-> <<>>, next |-> n]
    ELSE [error |-> "none",
          list  |-> [j \in 1..Len(r.val) |->
                        SpreadWithId(r.val[j].val, randomUUID(n + j - 1))],
          next  |-> n + Len(r.val)]

(***************************************************************************)
(* render(): [...this._list].sort(comparator).  Array.prototype.sort is    *)
(* stable (ECMAScript 2019); it is computed here as an insertion sort that *)
(* moves an element left only past elements the comparator puts after it.  *)
(***************************************************************************)
\* mutant: the comparator with its signs exchanged
compare_Reversed(a, b) ==
    IF a.completed = b.completed THEN 0
    ELSE IF a.completed THEN -1 ELSE 1

compare(a, b) ==
    IF a.completed = b.completed THEN 0
    ELSE IF a.completed THEN 1 ELSE -1

RECURSIVE SortInsert(_, _)
SortInsert(sorted, x) ==
    IF sorted = <<>> THEN <<x>>
    ELSE IF compare(sorted[Len(sorted)], x) > 0
      THEN Append(SortInsert(SubSeq(sorted, 1, Len(sorted) - 1), x),
                  sorted[Len(sorted)])
    ELSE Append(sorted, x)

RECURSIVE SortFrom(_, _)
SortFrom(sorted, rest) ==
    IF rest = <<>> THEN sorted
    ELSE SortFrom(SortInsert(sorted, Head(rest)), Tail(rest))

sort(list) == SortFrom(<<>>, list)

(***************************************************************************)
(* The list transformations of the three handlers.                         *)
(***************************************************************************)
\* mutant: `completed: true` in place of `completed: !item.completed`
CheckedList_SetTrue(list, id) ==
    [j \in 1..Len(list) |->
        IF list[j].id = id THEN [list[j] EXCEPT !.completed = TRUE] ELSE list[j]]

\* mutant: the task is rebuilt without its title
CheckedList_ClearsTitle(list, id) ==
    [j \in 1..Len(list) |->
        IF list[j].id = id
          THEN [list[j] EXCEPT !.completed = ~list[j].completed, !.title = ""]
          ELSE list[j]]

\* mutant: the toggled task is moved behind the others
CheckedList_MovesToEnd(list, id) ==
    SelectSeq(list, LAMBDA item : item.id # id)
    \o [j \in 1..Len(SelectSeq(list, LAMBDA item : item.id = id)) |->
          [SelectSeq(list, LAMBDA item : item.id = id)[j]
             EXCEPT !.completed = ~SelectSeq(list, LAMBDA item : item.id = id)[j].completed]]

\* _handleCheckedTodo: this._list.map(...)
CheckedList(list, id) ==
    [j \in 1..Len(list) |->
        IF list[j].id = id
          THEN [list[j] EXCEPT !.completed = ~list[j].completed]
          ELSE list[j]]

\* mutant: the new task put in front of the spread list
AddedList_Prepend(list, value, uuid) ==
    <<[title |-> value, completed |-> FALSE, id |-> uuid]>> \o list

\* mutant: the id is made from the length of the list
AddedList_LengthId(list, value, uuid) ==
    Append(list, [title |-> value, completed |-> FALSE, id |-> ToString(Len(list))])

\* _handleAddTodo: [...this._list, {title, completed: false, id}]
AddedList(list, value, uuid) ==
    Append(list, [title |-> value, completed |-> FALSE, id |-> uuid])

\* mutant: the filter with `===` in place of `!==`
DeletedList_KeepsMatch(list, id) == SelectSeq(list, LAMBDA item : item.id = id)

\* _handleDeleteTodo: this._list.filter(...)
DeletedList(list, id) == SelectSeq(list, LAMBDA item : item.id # id)

\* mutant: the guard left out
Falsy_NoGuard(value) == FALSE

\* `if (!value) return;` : only the empty string is falsy
Falsy(value) == value = ""

\* mutant: only the latest task is written
setItem_Delta(list) ==
    [present |-> TRUE,
     text |-> JSONstringify(IF list = <<>> THEN <<>> ELSE <<list[Len(list)]>>)]

\* localStorage.setItem("todo-list", JSON.stringify(list))
setItem(list) == [present |-> TRUE, text |-> JSONstringify(list)]

(***************************************************************************)
(* State.                                                                  *)
(***************************************************************************)
VARIABLES
    localStorage,     \* the "todo-list" entry: [present, text]
    _list,            \* this._list
    todoInput,        \* this._todoInput.value
    timers,           \* the window's pending timeouts: [h |-> handle, id |-> argument]
    timeout,          \* the `timeout` variable of the debounce closure (0: undefined)
    nextHandle,       \* the handle the next window.setTimeout returns
    nextUUID,         \* index of the next value of crypto.randomUUID()
    isUpdatePending,  \* a reactive update (render) is scheduled
    sortedList,       \* the sortedList of the latest render()
    error,            \* "none", or the exception the constructor threw
    last,             \* history: the latest step, [op, arg]
    burst,            \* history: the ids requested since no timeout was pending
    onlyAdds,         \* history: the list started empty and saw nothing but adds
    adds,             \* history: while onlyAdds, the values _handleAddTodo has read
    twice             \* history: consecutive firings for one id, [n, id, list]

vars == <<localStorage, _list, todoInput, timers, timeout, nextHandle, nextUUID,
          isUpdatePending, sortedList, error, last, burst, adds, onlyAdds, twice>>

\* an id that no task has
NoSuchId == "none"

\* ids a handler can be called with: those of the rendered items (lines 53, 63),
\* and, for a direct call, an id that no task has
IdArgs == {sortedList[j].id : j \in 1..Len(sortedList)} \cup {NoSuchId}

Step(op, arg) == [op |-> op, arg |-> arg]

\* no firing is being followed
NoFiring == [n |-> 0, id |-> "", list |-> <<>>]

(***************************************************************************)
(* What the "todo-list" entry can hold when the page is first opened.      *)
(***************************************************************************)
StoredTitles == {"A", "B"}

StoredItems ==
    [title : StoredTitles, completed : BOOLEAN, id : StoredIds]
    \cup [title : StoredTitles, completed : BOOLEAN]

HasId(item) == "id" \in DOMAIN item

\* lists of at most two records; data of another program may repeat an id
StoredLists ==
    {<<>>}
    \cup {<<a>> : a \in StoredItems}
    \cup {p \in StoredItems \X StoredItems :
              /\ p[1].title = "A" /\ p[2].title = "B"
              /\ HasId(p[1]) = HasId(p[2])}

\* text that JSON.parse rejects
UnparseableTexts ==
    { <<P("oops")>>,
      <<P("[")>>,
      <<P("["), P("{"), S("title"), P(":"), S("A"), P("]")>> }

\* JSON that is no array
NonArrayTexts ==
    { <<P("null")>>,
      <<S("A")>>,
      <<P("{"), P("}")>>,
      StringifyItem([title |-> "A", completed |-> FALSE, id |-> "s1"]) }

InitialStorage ==
    {[present |-> FALSE, text |-> <<>>], [present |-> TRUE, text |-> <<>>]}
    \cup {[present |-> TRUE, text |-> t] : t \in UnparseableTexts \cup NonArrayTexts}
    \cup {[present |-> TRUE, text |-> JSONstringify(x)] : x \in StoredLists}

(***************************************************************************)
(* Construction of the element: the field initializers, then the first     *)
(* render is scheduled.  A throwing initializer leaves no element.         *)
(***************************************************************************)
Init ==
    /\ localStorage \in InitialStorage
    /\ LET l == Load(localStorage, 1) IN
         /\ _list = l.list
         /\ error = l.error
         /\ nextUUID = l.next
         /\ onlyAdds = (l.error = "none" /\ l.list = <<>>)
    /\ todoInput = ""
    /\ timers = {}
    /\ timeout = 0
    /\ nextHandle = 1
    /\ isUpdatePending = TRUE
    /\ sortedList = <<>>
    /\ last = Step("startup", "")
    /\ burst = <<>>
    /\ adds = <<>>
    /\ twice = NoFiring

\* an event handler runs only on a constructed element, after the pending
\* reactive update (a microtask) has run
Idle == error = "none" /\ ~isUpdatePending

(***************************************************************************)
(* The page is opened again: a new element is constructed from what the    *)
(* storage holds now; the old page's timers and input are gone.            *)
(***************************************************************************)
Startup ==
    /\ Idle
    /\ Load(localStorage, nextUUID).next <= MaxUUID + 1
    /\ LET l == Load(localStorage, nextUUID) IN
         /\ _list' = l.list
         /\ error' = l.error
         /\ nextUUID' = l.next
         /\ onlyAdds' = (l.error = "none" /\ l.list = <<>>)
    /\ todoInput' = ""
    /\ timers' = {}
    /\ timeout' = 0
    /\ nextHandle' = 1
    /\ isUpdatePending' = TRUE
    /\ sortedList' = <<>>
    /\ last' = Step("startup", "")
    /\ burst' = <<>>
    /\ adds' = <<>>
    /\ twice' = NoFiring
    /\ UNCHANGED localStorage

\* mutant: this._list.sort(...) sorts the canonical list in place
ListAfterRender_InPlace(list) == sort(list)

\* this._list after render(): `[...this._list]` copies, so the sort leaves it alone
ListAfterRender(list) == list

\* render(): lines 31-35
Render ==
    /\ error = "none"
    /\ isUpdatePending
    /\ sortedList' = sort(_list)
    /\ _list' = ListAfterRender(_list)
    /\ isUpdatePending' = FALSE
    /\ last' = Step("render", "")
    /\ UNCHANGED <<localStorage, todoInput, timers, timeout, nextHandle,
                   nextUUID, error, burst, adds, onlyAdds, twice>>

\* the user edits the text field
TypeInput(value) ==
    /\ Idle
    /\ value # todoInput
    /\ todoInput' = value
    /\ last' = Step("input", value)
    /\ twice' = NoFiring
    /\ UNCHANGED <<localStorage, _list, timers, timeout, nextHandle, nextUUID,
                   isUpdatePending, sortedList, error, burst, adds, onlyAdds>>

\* _handleAddTodo(): lines 94-108
HandleAddTodo ==
    /\ Idle
    /\ onlyAdds => Len(adds) < MaxAdds
    /\ adds' = IF onlyAdds THEN Append(adds, todoInput) ELSE <<>>
    /\ last' = Step("add", todoInput)
    /\ twice' = NoFiring
    /\ IF Falsy(todoInput)
         THEN UNCHANGED <<localStorage, _list, todoInput, nextUUID, isUpdatePending>>
         ELSE /\ Len(_list) < MaxTasks
              /\ nextUUID <= MaxUUID
              /\ _list' = AddedList(_list, todoInput, randomUUID(nextUUID))
              /\ nextUUID' = nextUUID + 1
              /\ localStorage' = setItem(_list')
              /\ todoInput' = ""
              /\ isUpdatePending' = TRUE
    /\ UNCHANGED <<timers, timeout, nextHandle, sortedList, error, burst, onlyAdds>>

\* mutant: the pending timeout is not cleared
clearTimeout_Missing(pending, handle) == pending

\* clearTimeout(timeout): line 26
clearTimeout(pending, handle) == {t \in pending : t.h # handle}

\* debouncedCheckTodo(id): the closure returned by debounce, lines 25-28
DebouncedCheckTodo(id) ==
    /\ Idle
    /\ nextHandle <= MaxHandle
    /\ timers' = clearTimeout(timers, timeout) \cup {[h |-> nextHandle, id |-> id]}
    /\ timeout' = nextHandle
    /\ nextHandle' = nextHandle + 1
    /\ last' = Step("request", id)
    /\ twice' = IF twice.n = 1 /\ twice.id = id THEN twice ELSE NoFiring
    /\ burst' = IF timers = {} THEN <<id>> ELSE Append(burst, id)
    /\ onlyAdds' = FALSE
    /\ adds' = <<>>
    /\ UNCHANGED <<localStorage, _list, todoInput, nextUUID, isUpdatePending,
                   sortedList, error>>

\* mutant: setInterval in place of setTimeout, the callback stays pending
TimerFires_Repeats(t) ==
    /\ Idle
    /\ t \in timers
    /\ _list' = CheckedList(_list, t.id)
    /\ localStorage' = setItem(_list')
    /\ isUpdatePending' = TRUE
    /\ last' = Step("fire", t.id)
    /\ twice' = NoFiring
    /\ onlyAdds' = FALSE
    /\ adds' = <<>>
    /\ UNCHANGED <<timers, todoInput, timeout, nextHandle, nextUUID, sortedList,
                   error, burst>>

\* a timeout fires: func.apply(this, args), i.e. _handleCheckedTodo(id), lines 79-92
TimerFires(t) ==
    /\ Idle
    /\ t \in timers
    /\ timers' = timers \ {t}
    /\ _list' = CheckedList(_list, t.id)
    /\ localStorage' = setItem(_list')
    /\ isUpdatePending' = TRUE
    /\ last' = Step("fire", t.id)
    /\ twice' = IF twice.n = 1 /\ twice.id = t.id /\ last.op = "request"
                 THEN [twice EXCEPT !.n = 2]
                 ELSE [n |-> 1, id |-> t.id, list |-> _list]
    /\ onlyAdds' = FALSE
    /\ adds' = <<>>
    /\ UNCHANGED <<todoInput, timeout, nextHandle, nextUUID, sortedList, error, burst>>

\* mutant: delete also clears the pending timeout
HandleDeleteTodo_Cancels(id) ==
    /\ Idle
    /\ _list' = DeletedList(_list, id)
    /\ localStorage' = setItem(_list')
    /\ isUpdatePending' = TRUE
    /\ last' = Step("delete", id)
    /\ twice' = NoFiring
    /\ onlyAdds' = FALSE
    /\ adds' = <<>>
    /\ timers' = {}
    /\ UNCHANGED <<todoInput, timeout, nextHandle, nextUUID, sortedList, error, burst>>

\* _handleDeleteTodo(id): lines 110-113
HandleDeleteTodo(id) ==
    /\ Idle
    /\ _list' = DeletedList(_list, id)
    /\ localStorage' = setItem(_list')
    /\ isUpdatePending' = TRUE
    /\ last' = Step("delete", id)
    /\ twice' = NoFiring
    /\ onlyAdds' = FALSE
    /\ adds' = <<>>
    /\ UNCHANGED <<todoInput, timers, timeout, nextHandle, nextUUID, sortedList,
                   error, burst>>

Next ==
    \/ Startup
    \/ Render
    \/ \E value \in InputValues : TypeInput(value)
    \/ HandleAddTodo
    \/ \E id \in IdArgs : DebouncedCheckTodo(id)
    \/ \E t \in timers : TimerFires(t)
    \/ \E id \in IdArgs : HandleDeleteTodo(id)

Spec == Init /\ [][Next]_vars

(***************************************************************************)
(* Scheduling.  The reactive update is a microtask: it runs before any     *)
(* other event, so once scheduled it stays enabled until it runs (weak     *)
(* fairness).  A timeout whose delay has elapsed is run by the event loop  *)
(* between two events; events that schedule an update put it off, but not  *)
(* for ever (strong fairness).                                             *)
(***************************************************************************)
\* the fair behaviours are explored from a page with nothing stored or one
\* stored task, the user typing the one title "A"
LiveStorage ==
    {[present |-> FALSE, text |-> <<>>],
     setItem(<<[title |-> "A", completed |-> FALSE, id |-> "s1"]>>)}

LiveInputValues == {"", "A"}

LiveInit == Init /\ localStorage \in LiveStorage

LiveNext ==
    \/ Startup
    \/ Render
    \/ \E value \in LiveInputValues : TypeInput(value)
    \/ HandleAddTodo
    \/ \E id \in IdArgs : DebouncedCheckTodo(id)
    \/ \E t \in timers : TimerFires(t)
    \/ \E id \in IdArgs : HandleDeleteTodo(id)

FairSpec ==
    /\ LiveInit
    /\ [][LiveNext]_vars
    /\ WF_vars(Render)
    /\ SF_vars(\E t \in timers : TimerFires(t))

(***************************************************************************)
(* Helpers of the properties.                                              *)
(***************************************************************************)
Ids(list) == {list[j].id : j \in 1..Len(list)}
Titles(list) == [j \in 1..Len(list) |-> list[j].title]
Count(list, item) == Cardinality({j \in 1..Len(list) : list[j] = item})
Incomplete(list) == SelectSeq(list, LAMBDA item : ~item.completed)
Completed(list) == SelectSeq(list, LAMBDA item : item.completed)
IsBlank(value) == value \in {"", " "}

\* the records held by the stored text, when it is a JSON array
StoredRecords == JSONparse(getItem(localStorage)).val

\* the stored text holds exactly the tasks of `list`, in order
StoresExactly(list) ==
    /\ localStorage.present
    /\ LET r == JSONparse(localStorage.text) IN
         /\ r.ok /\ r.kind = "array"
         /\ Len(r.val) = Len(list)
         /\ \A j \in 1..Len(list) :
              /\ r.val[j].kind = "object"
              /\ DOMAIN r.val[j].val = {"title", "completed", "id"}
              /\ r.val[j].val["title"] = list[j].title
              /\ r.val[j].val["completed"] = list[j].completed
              /\ r.val[j].val["id"] = list[j].id

(***************************************************************************)
(* C1.  Persistence round trip: loading what was stored yields the stored  *)
(* list, same length, order, title, completed and id; a record stored with *)
(* an id keeps that id, only records without an id get a fresh one.        *)
(* The initializer gives every record a fresh id, so this fails.           *)
(***************************************************************************)
C1_RoundTripKeepsIds ==
    (last.op = "startup" /\ error = "none") =>
        /\ Len(_list) = Len(StoredRecords)
        /\ \A j \in 1..Len(_list) :
             /\ _list[j].title = StoredRecords[j].val["title"]
             /\ _list[j].completed = StoredRecords[j].val["completed"]
             /\ HasId(StoredRecords[j].val) => _list[j].id = StoredRecords[j].val["id"]

(***************************************************************************)
(* C2.  Load fails soft: whatever the storage holds, construction ends     *)
(* with a task list and no error; absent, empty or unparseable content     *)
(* gives the empty list.  JSON.parse and .map throw, so this fails.        *)
(***************************************************************************)
C2_LoadFailsSoft ==
    last.op = "startup" =>
        /\ error = "none"
        /\ (~localStorage.present \/ ~JSONparse(getItem(localStorage)).ok) => _list = <<>>

(***************************************************************************)
(* C3.  Add with an empty or whitespace-only title is a silent no-op: the  *)
(* list, the stored content and the input field are unchanged.  The        *)
(* handler tests `!value` only, so a title of spaces is added.             *)
(***************************************************************************)
C3_BlankAddIsNoOp ==
    [][(HandleAddTodo /\ IsBlank(todoInput)) =>
          UNCHANGED <<_list, localStorage, todoInput, error>>]_vars

(***************************************************************************)
(* C4.  Add with an accepted title t turns L into L followed by one new    *)
(* task {title: t, completed: false, id: fresh}; the tasks of L keep       *)
(* position and fields; the new list is stored; the input is cleared.      *)
(***************************************************************************)
C4_AddAppends ==
    /\ [][(HandleAddTodo /\ ~Falsy(todoInput)) =>
            /\ Len(_list') = Len(_list) + 1
            /\ \A j \in 1..Len(_list) : _list'[j] = _list[j]
            /\ _list'[Len(_list')].title = todoInput
            /\ _list'[Len(_list')].completed = FALSE
            /\ _list'[Len(_list')].id \notin Ids(_list)
            /\ todoInput' = ""]_vars
    /\ []((last.op = "add" /\ ~Falsy(last.arg)) => StoresExactly(_list))

C4_Witness ==
    /\ last.op = "add" /\ last.arg = "B"
    /\ Len(_list) = 2
    /\ _list[1].completed
    /\ _list[2] = [title |-> "B", completed |-> FALSE, id |-> _list[2].id]
    /\ todoInput = ""

(***************************************************************************)
(* C5.  From an empty list, after any sequence of adds the list length is  *)
(* the number of adds with a non-empty title and the titles, in list       *)
(* order, are those non-empty titles in the order they were added.         *)
(***************************************************************************)
C5_AddsOnly ==
    onlyAdds =>
        /\ Titles(_list) = SelectSeq(adds, LAMBDA value : value # "")
        /\ Len(_list) = Cardinality({j \in 1..Len(adds) : adds[j] # ""})

C5_Witness ==
    /\ onlyAdds
    /\ adds = <<"A", "", "B">>
    /\ Titles(_list) = <<"A", "B">>

(***************************************************************************)
(* C6.  toggle(id) flips completed of the task with that id and leaves     *)
(* every other task, the length and the order unchanged; with no such task *)
(* the list is unchanged and no error arises.                              *)
(***************************************************************************)
C6_ToggleFrame ==
    [][\A t \in timers : TimerFires(t) =>
          /\ Len(_list') = Len(_list)
          /\ \A j \in 1..Len(_list) :
               IF _list[j].id = t.id
                 THEN /\ _list'[j].completed = ~_list[j].completed
                      /\ _list'[j].title = _list[j].title
                      /\ _list'[j].id = _list[j].id
                 ELSE _list'[j] = _list[j]
          /\ (t.id \notin Ids(_list)) => _list' = _list
          /\ error' = "none"]_vars

C6_Witness ==
    /\ last.op = "fire"
    /\ Len(_list) = 2
    /\ _list[1].id = last.arg
    /\ _list[1].completed /\ ~_list[2].completed

(***************************************************************************)
(* C7.  Delete(X) on a list of size n with exactly one task of id X gives  *)
(* a list of size n-1 with no task of id X, the other tasks keeping their  *)
(* fields and relative order; delete of an id not in the list changes      *)
(* nothing in the list.                                                    *)
(***************************************************************************)
C7_Delete ==
    [][\A id \in IdArgs : HandleDeleteTodo(id) =>
          /\ (Cardinality({j \in 1..Len(_list) : _list[j].id = id}) = 1) =>
                /\ Len(_list') = Len(_list) - 1
                /\ id \notin Ids(_list')
                /\ \E k \in 1..Len(_list) :
                     /\ _list[k].id = id
                     /\ _list' = SubSeq(_list, 1, k - 1)
                                   \o SubSeq(_list, k + 1, Len(_list))
          /\ (id \notin Ids(_list)) => _list' = _list]_vars

C7_Witness ==
    /\ last.op = "delete" /\ last.arg # NoSuchId
    /\ Len(_list) = 1
    /\ last.arg \notin Ids(_list)
    /\ _list[1].title = "B" /\ _list[1].completed

(***************************************************************************)
(* C8.  Debounce collapse: of a burst of toggle requests, each made while  *)
(* the previous one is still pending, exactly one toggle is applied and    *)
(* stored when the timer fires, for the id of the last request; nothing is *)
(* applied for a superseded request.                                       *)
(***************************************************************************)
C8_DebounceCollapse ==
    /\ [][\A t \in timers : TimerFires(t) =>
            /\ burst # <<>>
            /\ t.id = burst[Len(burst)]
            /\ timers' = {}
            /\ Len(_list') = Len(_list)
            /\ \A j \in 1..Len(_list) :
                 _list'[j].completed =
                    IF _list[j].id = burst[Len(burst)]
                      THEN ~_list[j].completed ELSE _list[j].completed]_vars
    /\ [](last.op = "fire" => (timers = {} /\ StoresExactly(_list)))

C8_Witness ==
    /\ last.op = "fire"
    /\ Len(burst) = 2 /\ burst[1] # burst[2]
    /\ Len(_list) = 2
    /\ _list[1].id = burst[1] /\ ~_list[1].completed
    /\ _list[2].id = burst[2] /\ _list[2].completed
    /\ timers = {}

(***************************************************************************)
(* C9.  The display order is a stable partition of the canonical list:     *)
(* the same multiset of tasks, every incomplete task before every          *)
(* completed one, canonical order inside each group.                       *)
(***************************************************************************)
C9_StablePartition ==
    Idle =>
        /\ Len(sortedList) = Len(_list)
        /\ \A j \in 1..Len(_list) :
             Count(sortedList, _list[j]) = Count(_list, _list[j])
        /\ \A i, j \in 1..Len(sortedList) :
             i < j => ~(sortedList[i].completed /\ ~sortedList[j].completed)
        /\ Incomplete(sortedList) = Incomplete(_list)
        /\ Completed(sortedList) = Completed(_list)

C9_Witness ==
    /\ Idle
    /\ Titles(_list) = <<"A", "B">>
    /\ _list[1].completed /\ ~_list[2].completed
    /\ Titles(sortedList) = <<"B", "A">>
    /\ last.op = "render"

(***************************************************************************)
(* C10.  Every mutation is at once persisted in full: right after an add,  *)
(* an applied toggle or a delete (also one whose id matched nothing) the   *)
(* stored content is the serialization of the whole current list.          *)
(***************************************************************************)
Mutated ==
    \/ last.op = "add" /\ ~Falsy(last.arg)
    \/ last.op = "fire"
    \/ last.op = "delete"

C10_PersistedInFull ==
    Mutated =>
        /\ localStorage.present
        /\ localStorage.text = JSONstringify(_list)
        /\ StoresExactly(_list)

C10_Witness ==
    /\ last.op = "delete" /\ last.arg = NoSuchId
    /\ Len(_list) = 2
    /\ _list[1].completed
    /\ localStorage.text = JSONstringify(_list)

(***************************************************************************)
(* C11.  Toggle is an involution: two toggles of one id, the timer firing  *)
(* between the two requests and nothing else in between, give back the     *)
(* task's completed flag and the whole list, order included.               *)
(***************************************************************************)
C11_ToggleTwice ==
    twice.n = 2 => _list = twice.list

C11_Witness ==
    /\ twice.n = 2
    /\ last.op = "fire"
    /\ Len(_list) = 2
    /\ _list[1].id = twice.id
    /\ _list[1].completed /\ ~_list[2].completed
    /\ _list = twice.list

(***************************************************************************)
(* C12.  Id uniqueness: in every state reached by load, add, toggle        *)
(* request, timer firing and delete, the tasks of the list have pairwise   *)
(* distinct ids (randomUUID never returning a value twice).                *)
(***************************************************************************)
C12_UniqueIds ==
    \A i, j \in 1..Len(_list) : i # j => _list[i].id # _list[j].id

C12_Witness ==
    /\ last.op = "add"
    /\ Len(_list) = 2
    /\ _list[1].id # _list[2].id
    /\ Len(StoredRecords) = 2

(***************************************************************************)
(* C13.  The debouncer has one global slot: at most one callback is        *)
(* pending, it carries the id of the latest request, and every request     *)
(* cancels the pending callback, whatever its id, and puts its own in.     *)
(***************************************************************************)
C13_SingleSlot ==
    /\ [](/\ Cardinality(timers) <= 1
          /\ \A t \in timers : t.h = timeout /\ t.id = burst[Len(burst)])
    /\ [][\A id \in IdArgs : DebouncedCheckTodo(id) =>
            timers' = {[h |-> timeout', id |-> id]}]_vars

C13_Witness ==
    /\ last.op = "request"
    /\ Len(burst) = 2 /\ burst[1] # burst[2]
    /\ timers = {[h |-> timeout, id |-> burst[2]]}
    /\ burst[1] \in Ids(_list) /\ burst[2] \in Ids(_list)

(***************************************************************************)
(* C14.  Liveness of the debounced toggle: a toggle request that no later  *)
(* request supersedes has its callback fire in the end (the timer being    *)
(* fair, the page staying open); the toggle is then applied once, for the  *)
(* requested id, the result is stored and no callback stays pending.       *)
(***************************************************************************)
\* the request that got handle h is the latest one and its callback is pending
IsCurrent(h) == timeout = h /\ \E t \in timers : t.h = h

\* the callback of handle h has fired, or a later request or a new page replaced it
FiredOrReplaced(h) == timeout # h \/ (last.op = "fire" /\ timers = {})

C14_ToggleFires ==
    /\ \A h \in 1..MaxHandle : IsCurrent(h) ~> FiredOrReplaced(h)
    /\ [][\A t \in timers : TimerFires(t) =>
            /\ t.h = timeout
            /\ timers' = {}
            /\ last'.arg = t.id]_vars
    /\ [](last.op = "fire" => (timers = {} /\ StoresExactly(_list)))

C14_Witness ==
    /\ last.op = "fire"
    /\ timers = {} /\ timeout = 1
    /\ Len(burst) = 1 /\ burst[1] = last.arg
    /\ Len(_list) = 2
    /\ _list[2].id = last.arg /\ _list[2].completed /\ ~_list[1].completed

(***************************************************************************)
(* C15.  Canonical order is insertion order modulo deletions: under add,   *)
(* toggle request, timer firing and delete two tasks of the list never     *)
(* change their relative order, and a task added later is after every task *)
(* added earlier.                                                          *)
(***************************************************************************)
\* the rank of an id in the order in which the ids were handed out
IdIndex(id) == CHOOSE n \in 1..MaxUUID : randomUUID(n) = id

C15_InsertionOrder ==
    /\ [](\A i, j \in 1..Len(_list) :
            i < j => IdIndex(_list[i].id) < IdIndex(_list[j].id))
    /\ [][last'.op # "startup" =>
            \A i, j \in 1..Len(_list) : \A k, l \in 1..Len(_list') :
               (i < j /\ _list'[k].id = _list[i].id /\ _list'[l].id = _list[j].id)
                  => k < l]_vars

C15_Witness ==
    /\ last.op = "add"
    /\ Titles(_list) = <<"B", "A">>
    /\ _list[1].completed
    /\ IdIndex(_list[1].id) < IdIndex(_list[2].id)

(***************************************************************************)
(* C16.  A task's id and title are fixed at creation: no add, toggle       *)
(* request, timer firing or delete changes the id or the title of a task   *)
(* that stays in the list; completed is the only field ever changed.       *)
(***************************************************************************)
Keys(list) == [j \in 1..Len(list) |-> <<list[j].id, list[j].title>>]

C16_IdAndTitleFixed ==
    [][last'.op # "startup" =>
         IF last'.op = "add" /\ ~Falsy(todoInput)
           THEN /\ Len(_list') = Len(_list) + 1
                /\ \A j \in 1..Len(_list) : _list'[j] = _list[j]
         ELSE IF last'.op = "delete"
           THEN Keys(_list') = SelectSeq(Keys(_list), LAMBDA k : k[1] # last'.arg)
         ELSE /\ Keys(_list') = Keys(_list)
              /\ \A j \in 1..Len(_list) :
                   _list'[j] = [_list[j] EXCEPT !.completed = _list'[j].completed]]_vars

C16_Witness ==
    /\ last.op = "fire"
    /\ Len(_list) = 2
    /\ _list[1].title = "A" /\ _list[1].completed
    /\ _list[2].title = "B" /\ _list[2].completed
    /\ _list[2].id = last.arg

(***************************************************************************)
(* C17.  Computing the display order leaves the canonical list, the stored *)
(* content and the pending debounce callback unchanged, however many       *)
(* renders happen.                                                         *)
(***************************************************************************)
C17_RenderPure ==
    [][Render => UNCHANGED <<_list, localStorage, timers, timeout>>]_vars

C17_Witness ==
    /\ last.op = "render"
    /\ Len(_list) = 2
    /\ sortedList # _list
    /\ sortedList = <<_list[2], _list[1]>>
    /\ timers # {}

(***************************************************************************)
(* C18.  A pending toggle and add / delete: add and delete neither cancel  *)
(* nor change the pending callback; the firing is applied to the list as   *)
(* it is when the timer fires, so tasks added or deleted meanwhile stay so *)
(* and a target deleted meanwhile is not brought back.                     *)
(***************************************************************************)
C18_PendingToggleInterleaving ==
    /\ [][(HandleAddTodo \/ \E id \in IdArgs : HandleDeleteTodo(id)) =>
            UNCHANGED <<timers, timeout>>]_vars
    /\ [][\A t \in timers : TimerFires(t) =>
            /\ Keys(_list') = Keys(_list)
            /\ \A j \in 1..Len(_list) :
                 _list'[j].completed = (_list[j].completed # (_list[j].id = t.id))
            /\ (t.id \notin Ids(_list)) =>
                  (_list' = _list /\ t.id \notin Ids(_list'))]_vars

C18_Witness ==
    /\ last.op = "fire"
    /\ last.arg # NoSuchId
    /\ last.arg \notin Ids(_list)
    /\ Len(_list) = 1
    /\ timers = {}

====
